---- MODULE Spec2Model ----
(***************************************************************************)
(* A model of the generated CRUD API (Hono route groups over a Prisma      *)
(* store): the query-parameter processor of the validation layer, the      *)
(* route groups of hashtags, posts and likes with their registration       *)
(* order, and the storage calls the handlers make.                         *)
(*                                                                         *)
(* Strings that the code parses (page, limit, path segments, text          *)
(* filters) are sequences of one-character strings, so that parseInt, the  *)
(* /^\d+$/ test and the store's BigInt coercion are computed, not assumed. *)
(***************************************************************************)
EXTENDS Integers, Sequences, FiniteSets, TLC

VARIABLES
    db,      \* the store: db[e] is the set of rows of table e
    seq,     \* seq[e]: the next value of table e's id sequence
    req,     \* the HTTP request handled last
    resp,    \* the response produced for req
    calls,   \* the storage calls made while handling req, in order
    pq,      \* input of the query-parameter processor (SpecProc)
    pout,    \* what the processor returned for pq (SpecProc)
    par,     \* the two storage calls of a list or search request in flight
    sent     \* sent[e]: id and body of the creates answered 201 whose record
             \* has not been updated or deleted since (what the clients know)

vars == <<db, seq, req, resp, calls, pq, pout, par, sent>>

----------------------------------------------------------------------------
(* Bounds of the model *)

\* longest limit string given to the processor
MaxLen == 3
\* longest page string given to the processor
MaxPageLen == 2
\* how many ids the store hands out over all tables
MaxCreates == 3
\* how many ids the store hands out when all six tables are written
MaxStoreCreates == 2
\* most rows per table when a list or search request is followed call by call
MaxConcRows == 2
\* most records other requests create while list and search requests are
\* followed, and most writes of other requests during one of them
MaxWrites == 1
\* most rows per table of the stores that list and search requests read
MaxRows == 25

----------------------------------------------------------------------------
(* Values *)

\* a property that is absent from a query object (JavaScript undefined)
Undefined == <<"undefined">>

\* JavaScript numbers as the processor sees them
Num(n) == [k |-> "num", v |-> n]
NaN == [k |-> "nan", v |-> 0]
UndefNum == [k |-> "undefined", v |-> 0]

Digits == {"0", "1", "2", "3", "4", "5", "6", "7", "8", "9"}

DigitVal(c) ==
    CASE c = "0" -> 0 [] c = "1" -> 1 [] c = "2" -> 2 [] c = "3" -> 3
      [] c = "4" -> 4 [] c = "5" -> 5 [] c = "6" -> 6 [] c = "7" -> 7
      [] c = "8" -> 8 [] c = "9" -> 9

\* /^\d+$/.test(val)
IsDigitString(s) == Len(s) > 0 /\ \A i \in 1..Len(s) : s[i] \in Digits

\* the value of a sequence of decimal digits
RECURSIVE DigitsValue(_)
DigitsValue(d) ==
    IF d = <<>> THEN 0
    ELSE DigitsValue(SubSeq(d, 1, Len(d) - 1)) * 10 + DigitVal(d[Len(d)])

\* the longest prefix of s made of decimal digits
RECURSIVE DigitPrefix(_)
DigitPrefix(s) ==
    IF s = <<>> \/ Head(s) \notin Digits THEN <<>>
    ELSE <<Head(s)>> \o DigitPrefix(Tail(s))

\* leading white space is skipped by parseInt
RECURSIVE TrimStart(_)
TrimStart(s) == IF s # <<>> /\ Head(s) = " " THEN TrimStart(Tail(s)) ELSE s

\* the number that a sign and a sequence of digits stand for, NaN when
\* there is no digit
SignedValue(neg, d) ==
    IF d = <<>> THEN NaN
    ELSE Num(IF neg THEN 0 - DigitsValue(d) ELSE DigitsValue(d))

\* parseInt(s, 10): white space, an optional sign, then the digits up to the
\* first character that is none
ParseTrimmed(t) ==
    SignedValue(t # <<>> /\ Head(t) = "-",
                DigitPrefix(IF t # <<>> /\ Head(t) \in {"-", "+"} THEN Tail(t) ELSE t))

parseInt(s) == ParseTrimmed(TrimStart(s))

\* the digit character of a number below ten
DigitChar(n) == CHOOSE c \in Digits : DigitVal(c) = n

\* decimal digits of a natural number
RECURSIVE ToDigits(_)
ToDigits(n) ==
    IF n < 10 THEN <<DigitChar(n)>>
    ELSE ToDigits(n \div 10) \o <<DigitChar(n % 10)>>

\* truthiness of an optional string (undefined and "" are falsy)
TruthyStr(s) == s # Undefined /\ s # <<>>

\* truthiness of a number (undefined, NaN and 0 are falsy)
TruthyNum(n) == n.k = "num" /\ n.v # 0

----------------------------------------------------------------------------
(* Validation layer: list-query schema and query-parameter processor *)

DefaultTake == 10
MaxTake == 100

\* the page / limit member of the query schemas:
\* z.string().optional().refine(val => val === undefined || /^\d+$/.test(val))
DigitsOrAbsent(val) == val = Undefined \/ IsDigitString(val)

\* likesQuerySchema: the query object passes list-query validation
likesQuerySchema(q) == DigitsOrAbsent(q.page) /\ DigitsOrAbsent(q.limit)

\* followersQuerySchema
followersQuerySchema(q) == DigitsOrAbsent(q.page) /\ DigitsOrAbsent(q.limit)

\* one member of internalQueryParamsSchema:
\* z.number().int().min(lo).max(hi).optional()
OptIntBetween(n, lo, hi) ==
    \/ n.k = "undefined"
    \/ n.k = "num" /\ n.v >= lo /\ n.v <= hi

\* z.number().int().min(lo).optional()
OptIntAtLeast(n, lo) ==
    \/ n.k = "undefined"
    \/ n.k = "num" /\ n.v >= lo

\* the same schema with limit's lower bound dropped
internalQueryParamsSchema_loose(o) ==
    /\ OptIntAtLeast(o.skip, 0)
    /\ OptIntBetween(o.take, 1, MaxTake)
    /\ OptIntAtLeast(o.page, 1)
    /\ OptIntBetween(o.limit, 0, MaxTake)

\* internalQueryParamsSchema.safeParse(o).success
internalQueryParamsSchema(o) ==
    /\ OptIntAtLeast(o.skip, 0)
    /\ OptIntBetween(o.take, 1, MaxTake)
    /\ OptIntAtLeast(o.page, 1)
    /\ OptIntBetween(o.limit, 1, MaxTake)

\* a where condition { <field>: { contains: <text>, mode: 'insensitive' } }
Contains(field, text) ==
    [field |-> field, op |-> "contains", text |-> text, mode |-> "insensitive"]

\* a fallback that asks the store for no rows
Fallback_take0 == [where |-> {}, skip |-> 0, take |-> 0]

\* what the processor returns when re-validation fails
Fallback == [where |-> {}, skip |-> 0, take |-> DefaultTake]

\* query.page ? parseInt(query.page, 10) : undefined
ParsedOrUndefined(s) == IF TruthyStr(s) THEN parseInt(s) ELSE UndefNum

\* take: the parsed limit when it is in [1,100], else the default
TakeOf(limit) ==
    IF TruthyNum(limit) /\ limit.v > 0 /\ limit.v <= MaxTake
    THEN limit.v ELSE DefaultTake

\* skip computed as page * take
SkipOf_pagetimes(page, take) ==
    IF TruthyNum(page) /\ page.v > 0 THEN page.v * take ELSE 0

\* skip: (page - 1) * take for a parsed page > 0, else 0
SkipOf(page, take) ==
    IF TruthyNum(page) /\ page.v > 0 THEN (page.v - 1) * take ELSE 0

\* a where object in which the description filter overwrites the name key
WhereOf_samekey(name, description) ==
    IF TruthyStr(description) THEN {Contains("name", description)}
    ELSE IF TruthyStr(name) THEN {Contains("name", name)}
    ELSE {}

\* the where object built from the text filters that are present
WhereOf(name, description) ==
    (IF TruthyStr(name) THEN {Contains("name", name)} ELSE {})
    \cup
    (IF TruthyStr(description) THEN {Contains("description", description)} ELSE {})

\* the re-validation of the derived values and what is returned after it
Revalidated(query, page, limit, take, skip) ==
    IF ~ internalQueryParamsSchema([skip |-> Num(skip), take |-> Num(take),
                                    page |-> page, limit |-> limit])
    THEN Fallback
    ELSE [where |-> WhereOf(query.name, query.description),
          skip |-> skip, take |-> take]

\* the processor from the parsed page and limit on
Derived(query, page, limit) ==
    Revalidated(query, page, limit, TakeOf(limit), SkipOf(page, TakeOf(limit)))

\* processLikesQueryParams of validations/likes.ts
processLikesQueryParams(query) ==
    Derived(query, ParsedOrUndefined(query.page), ParsedOrUndefined(query.limit))

\* processFollowersQueryParams of validations/followers.ts, the same text
\* but for the entity's name
processFollowersQueryParams(query) ==
    Derived(query, ParsedOrUndefined(query.page), ParsedOrUndefined(query.limit))

----------------------------------------------------------------------------
(* The store: tables, sequences and constraints of the schema *)

\* the tables of the schema
Tables == {"users", "posts", "likes", "comments", "followers", "hashtags"}

\* the route groups whose requests Spec issues; the other tables are written
\* under SpecStore
Entities == {"hashtags", "posts", "likes"}

\* the users the store holds from the start
SeedUsers ==
    {[id |-> 1, username |-> <<"a">>, email |-> <<"a">>, createdAt |-> 0],
     [id |-> 2, username |-> <<"b">>, email |-> <<"b">>, createdAt |-> 0]}

\* @unique and @@unique of each model, in the order of the indexes
UniqueKeys(e) ==
    CASE e = "users" -> << <<"username">>, <<"email">> >>
      [] e = "hashtags" -> << <<"name">> >>
      [] e = "likes" -> << <<"userId", "postId">> >>
      [] e = "followers" -> << <<"followerId", "followeeId">> >>
      [] OTHER -> << >>

\* the foreign keys of each table (all ON DELETE RESTRICT)
ForeignKeys(e) ==
    CASE e = "posts" -> {[field |-> "userId", ref |-> "users"]}
      [] e = "likes" -> {[field |-> "userId", ref |-> "users"],
                         [field |-> "postId", ref |-> "posts"]}
      [] e = "comments" -> {[field |-> "userId", ref |-> "users"],
                            [field |-> "postId", ref |-> "posts"]}
      [] e = "followers" -> {[field |-> "followerId", ref |-> "users"],
                             [field |-> "followeeId", ref |-> "users"]}
      [] OTHER -> {}

\* the columns of each table a where filter can name
Columns(e) ==
    CASE e = "hashtags" -> {"id", "name"}
      [] e = "posts" -> {"id", "userId", "content", "createdAt"}
      [] e = "likes" -> {"id", "userId", "postId", "createdAt"}
      [] e = "comments" -> {"id", "userId", "postId", "content", "createdAt"}
      [] e = "followers" -> {"id", "followerId", "followeeId", "createdAt"}
      [] e = "users" -> {"id", "username", "email", "passwordHash", "createdAt"}

\* the store's clock, read by DEFAULT CURRENT_TIMESTAMP: logical time that
\* advances with every sequence value handed out
Now(s) ==
    s["users"] + s["posts"] + s["likes"] + s["comments"] + s["followers"]
    + s["hashtags"]

\* an insert that writes a like's post id into both of its id columns
MkRow_swapped(e, id, data, now) ==
    CASE e = "hashtags" -> [id |-> id, name |-> data.name]
      [] e = "posts" -> [id |-> id, userId |-> data.userId,
                         content |-> data.content, createdAt |-> now]
      [] e = "likes" -> [id |-> id, userId |-> data.postId,
                         postId |-> data.postId, createdAt |-> now]
      [] e = "comments" -> [id |-> id, userId |-> data.userId,
                            postId |-> data.postId, content |-> data.content,
                            createdAt |-> now]
      [] e = "followers" -> [id |-> id, followerId |-> data.followerId,
                             followeeId |-> data.followeeId, createdAt |-> now]
      [] e = "users" -> [id |-> id, username |-> data.username,
                         email |-> data.email, createdAt |-> now]

\* the row an insert writes: the id from the sequence, the client's fields
\* and, in the tables that have the column, created_at from the clock
MkRow(e, id, data, now) ==
    CASE e = "hashtags" -> [id |-> id, name |-> data.name]
      [] e = "posts" -> [id |-> id, userId |-> data.userId,
                         content |-> data.content, createdAt |-> now]
      [] e = "likes" -> [id |-> id, userId |-> data.userId,
                         postId |-> data.postId, createdAt |-> now]
      [] e = "comments" -> [id |-> id, userId |-> data.userId,
                            postId |-> data.postId, content |-> data.content,
                            createdAt |-> now]
      [] e = "followers" -> [id |-> id, followerId |-> data.followerId,
                             followeeId |-> data.followeeId, createdAt |-> now]
      [] e = "users" -> [id |-> id, username |-> data.username,
                         email |-> data.email, createdAt |-> now]

\* the row an update leaves: the columns named in data are set, the others
\* keep their values
Merge(old, data) ==
    [f \in DOMAIN old |-> IF f \in DOMAIN data THEN data[f] ELSE old[f]]

\* results of a storage call: a value, or a thrown error with its code
\* (P2002 unique, P2003 foreign key, P2025 not found, "validation" for a
\* query the client rejects, "unavailable" for a store that cannot be reached)
Ok(v) == [ok |-> TRUE, value |-> v, code |-> "", target |-> << >>]
Err(code, target) == [ok |-> FALSE, value |-> {}, code |-> code, target |-> target]

\* the store coerces a string given for a BigInt column: an optional
\* sign and decimal digits, anything else is rejected
IsBigIntString(s) ==
    LET body == IF s # <<>> /\ Head(s) \in {"-", "+"} THEN Tail(s) ELSE s
    IN  IsDigitString(body)

ParseBigInt(s) ==
    LET neg == Head(s) = "-"
        body == IF Head(s) \in {"-", "+"} THEN Tail(s) ELSE s
    IN  IF neg THEN 0 - DigitsValue(body) ELSE DigitsValue(body)

\* a check of the table's first unique index only
ViolatedKey_first(e, rows, data, self) ==
    IF /\ Len(UniqueKeys(e)) >= 1
       /\ \E r \in rows :
              /\ r.id # self
              /\ \A j \in 1..Len(UniqueKeys(e)[1]) :
                     r[UniqueKeys(e)[1][j]] = data[UniqueKeys(e)[1][j]]
    THEN 1 ELSE 0

\* the index of the first unique key that data violates against a row
\* other than self, 0 when there is none
ViolatedKey(e, rows, data, self) ==
    LET bad == {i \in 1..Len(UniqueKeys(e)) :
                   \E r \in rows :
                       /\ r.id # self
                       /\ \A j \in 1..Len(UniqueKeys(e)[i]) :
                              r[UniqueKeys(e)[i][j]] = data[UniqueKeys(e)[i][j]]}
    IN  IF bad = {} THEN 0 ELSE CHOOSE i \in bad : \A j \in bad : i <= j

\* some foreign key of data names a row that does not exist
FKViolated(e, d, data) ==
    \E fk \in ForeignKeys(e) : \A r \in d[fk.ref] : r.id # data[fk.field]

\* some row of another table refers to row id of table e
Referenced(e, d, id) ==
    \E t \in Tables : \E fk \in ForeignKeys(t) :
        fk.ref = e /\ \E r \in d[t] : r[fk.field] = id

\* prisma.<e>.findUnique({ where: { id } })
findUnique(e, id, d, fault) ==
    IF fault = "down" THEN Err("unavailable", << >>)
    ELSE IF ~ IsBigIntString(id) THEN Err("validation", << >>)
    ELSE Ok({r \in d[e] : r.id = ParseBigInt(id)})

\* an insert that gives the new row the lowest id that is free
Inserted_reusing(e, data, d, s, s2, k) ==
    IF k # 0
    THEN [res |-> Err("P2002", UniqueKeys(e)[k]), db |-> d, seq |-> s2]
    ELSE IF FKViolated(e, d, data)
    THEN [res |-> Err("P2003", << >>), db |-> d, seq |-> s2]
    ELSE [res |-> Ok({MkRow(e, Cardinality(d[e]) + 1, data, Now(s))}),
          db |-> [d EXCEPT ![e] = @ \cup {MkRow(e, Cardinality(d[e]) + 1, data,
                                                Now(s))}],
          seq |-> s2]

\* the insert of a row whose sequence value has been taken: the unique
\* indexes are checked before the foreign keys
Inserted(e, data, d, s, s2, k) ==
    IF k # 0
    THEN [res |-> Err("P2002", UniqueKeys(e)[k]), db |-> d, seq |-> s2]
    ELSE IF FKViolated(e, d, data)
    THEN [res |-> Err("P2003", << >>), db |-> d, seq |-> s2]
    ELSE [res |-> Ok({MkRow(e, s[e], data, Now(s))}),
          db |-> [d EXCEPT ![e] = @ \cup {MkRow(e, s[e], data, Now(s))}],
          seq |-> s2]

\* prisma.<e>.create({ data }): the sequence value is taken before the
\* insert is tried
create(e, data, d, s, fault) ==
    IF fault = "down" THEN [res |-> Err("unavailable", << >>), db |-> d, seq |-> s]
    ELSE Inserted(e, data, d, s, [s EXCEPT ![e] = @ + 1],
                  ViolatedKey(e, d[e], data, 0))

\* the update of the rows old (one row, or none) of table e
Rewritten(e, old, data, d, k) ==
    IF old = {} THEN [res |-> Err("P2025", << >>), db |-> d]
    ELSE IF k # 0 THEN [res |-> Err("P2002", UniqueKeys(e)[k]), db |-> d]
    ELSE IF FKViolated(e, d, data) THEN [res |-> Err("P2003", << >>), db |-> d]
    ELSE [res |-> Ok({Merge(r, data) : r \in old}),
          db |-> [d EXCEPT ![e] = (@ \ old) \cup {Merge(r, data) : r \in old}]]

\* an update that stores the data as a new row when no row has the id
update_upsert(e, id, data, d, fault) ==
    IF fault = "down" THEN [res |-> Err("unavailable", << >>), db |-> d]
    ELSE IF ~ IsBigIntString(id) THEN [res |-> Err("validation", << >>), db |-> d]
    ELSE IF \A r \in d[e] : r.id # ParseBigInt(id)
    THEN [res |-> Err("P2025", << >>),
          db |-> [d EXCEPT ![e] = @ \cup {MkRow(e, ParseBigInt(id), data, 0)}]]
    ELSE Rewritten(e, {r \in d[e] : r.id = ParseBigInt(id)}, data, d,
                   ViolatedKey(e, d[e], data, ParseBigInt(id)))

\* prisma.<e>.update({ where: { id }, data })
update(e, id, data, d, fault) ==
    IF fault = "down" THEN [res |-> Err("unavailable", << >>), db |-> d]
    ELSE IF ~ IsBigIntString(id) THEN [res |-> Err("validation", << >>), db |-> d]
    ELSE Rewritten(e, {r \in d[e] : r.id = ParseBigInt(id)}, data, d,
                   ViolatedKey(e, d[e], data, ParseBigInt(id)))

\* a removal that does not look for rows that refer to the record
Erased_unrestricted(e, old, n, d) ==
    IF old = {} THEN [res |-> Err("P2025", << >>), db |-> d]
    ELSE [res |-> Ok(old), db |-> [d EXCEPT ![e] = @ \ old]]

\* the removal of the rows old (one row, or none) of table e
Erased(e, old, n, d) ==
    IF old = {} THEN [res |-> Err("P2025", << >>), db |-> d]
    ELSE IF Referenced(e, d, n) THEN [res |-> Err("P2003", << >>), db |-> d]
    ELSE [res |-> Ok(old), db |-> [d EXCEPT ![e] = @ \ old]]

\* prisma.<e>.delete({ where: { id } })
delete(e, id, d, fault) ==
    IF fault = "down" THEN [res |-> Err("unavailable", << >>), db |-> d]
    ELSE IF ~ IsBigIntString(id) THEN [res |-> Err("validation", << >>), db |-> d]
    ELSE Erased(e, {r \in d[e] : r.id = ParseBigInt(id)}, ParseBigInt(id), d)

\* lower case of a character (mode: 'insensitive')
ToLowerChar(c) ==
    CASE c = "A" -> "a" [] c = "B" -> "b" [] OTHER -> c

ToLower(s) == [i \in 1..Len(s) |-> ToLowerChar(s[i])]

\* text starts with prefix, ignoring case
StartsWith(text, prefix) ==
    /\ Len(prefix) <= Len(text)
    /\ SubSeq(ToLower(text), 1, Len(prefix)) = ToLower(prefix)

\* text contains part, ignoring case
ContainsText(text, part) ==
    \E i \in 0..(Len(text) - Len(part)) :
        SubSeq(ToLower(text), i + 1, i + Len(part)) = ToLower(part)

\* a row satisfies a where object: every condition of a list filter, and
\* for a search filter some member of its OR list
RowMatches(row, where) ==
    \A c \in where :
        IF c.op = "startsWith" THEN StartsWith(row[c.field], c.text)
        ELSE ContainsText(row[c.field], c.text)

\* a where object the client accepts for table e
WhereValid(e, where) == \A c \in where : c.field \in Columns(e)

\* rows in descending id order (orderBy: { id: 'desc' })
RECURSIVE SortDesc(_)
SortDesc(rows) ==
    IF rows = {} THEN << >>
    ELSE LET top == CHOOSE r \in rows : \A o \in rows : o.id <= r.id
         IN  <<top>> \o SortDesc(rows \ {top})

\* a findMany without orderBy: the rows come in ascending id order
findMany_asc(e, where, skip, take, d, fault) ==
    IF fault = "down" THEN Err("unavailable", << >>)
    ELSE IF ~ WhereValid(e, where) \/ skip < 0 THEN Err("validation", << >>)
    ELSE LET all == SortDesc({r \in d[e] : RowMatches(r, where)})
         IN  Ok([i \in 1..(IF skip + take < Len(all) THEN take
                           ELSE IF skip < Len(all) THEN Len(all) - skip ELSE 0)
                    |-> all[Len(all) + 1 - (skip + i)]])

\* prisma.<e>.findMany({ where, skip, take, orderBy: { id: 'desc' } })
findMany(e, where, skip, take, d, fault) ==
    IF fault = "down" THEN Err("unavailable", << >>)
    ELSE IF ~ WhereValid(e, where) \/ skip < 0 THEN Err("validation", << >>)
    ELSE LET all == SortDesc({r \in d[e] : RowMatches(r, where)})
         IN  Ok(SubSeq(all, skip + 1,
                       IF skip + take < Len(all) THEN skip + take ELSE Len(all)))

\* prisma.<e>.count({ where })
count(e, where, d, fault) ==
    IF fault = "down" THEN Err("unavailable", << >>)
    ELSE IF ~ WhereValid(e, where) THEN Err("validation", << >>)
    ELSE Ok(Cardinality({r \in d[e] : RowMatches(r, where)}))

----------------------------------------------------------------------------
(* Validation layer: path, body and search-query schemas *)

\* <e>IdParamSchema: z.object({ id: z.string() }), any path segment passes
idParamSchema(id) == Len(id) >= 0

\* z.coerce.bigint(): BigInt(raw) succeeds
CoercibleBigInt(raw) == raw # Undefined /\ (raw = <<>> \/ IsBigIntString(raw))

\* BigInt(raw) for a raw value that coerces ("" gives 0n)
CoerceBigInt(raw) == IF raw = <<>> THEN 0 ELSE ParseBigInt(raw)

\* createLikesSchema and updateLikesSchema (the two have the same members)
createLikesSchema(body) ==
    CoercibleBigInt(body.userId) /\ CoercibleBigInt(body.postId)

\* createFollowersSchema and updateFollowersSchema
createFollowersSchema(body) ==
    CoercibleBigInt(body.followerId) /\ CoercibleBigInt(body.followeeId)

\* createPostsSchema and updatePostsSchema of validations/posts
createPostsSchema(body) ==
    CoercibleBigInt(body.userId) /\ body.content # Undefined

\* createCommentsSchema and updateCommentsSchema of validations/comments
createCommentsSchema(body) ==
    /\ CoercibleBigInt(body.userId) /\ CoercibleBigInt(body.postId)
    /\ body.content # Undefined

\* createUsersSchema and updateUsersSchema of validations/users
createUsersSchema(body) == body.username # Undefined /\ body.email # Undefined

\* createHashtagsSchema and updateHashtagsSchema of validations/hashtags
createHashtagsSchema(body) == body.name # Undefined

\* the schema that zValidator('json', ...) applies in the route group of e
bodySchema(e, body) ==
    CASE e = "hashtags" -> createHashtagsSchema(body)
      [] e = "posts" -> createPostsSchema(body)
      [] e = "likes" -> createLikesSchema(body)
      [] e = "comments" -> createCommentsSchema(body)
      [] e = "followers" -> createFollowersSchema(body)
      [] e = "users" -> createUsersSchema(body)

\* a schema that lets the body's createdAt through
validatedData_passthrough(e, body) ==
    CASE e = "hashtags" -> [name |-> body.name]
      [] e = "posts" ->
             IF body.createdAt = Undefined
             THEN [userId |-> CoerceBigInt(body.userId), content |-> body.content]
             ELSE [userId |-> CoerceBigInt(body.userId), content |-> body.content,
                   createdAt |-> DigitsValue(body.createdAt)]
      [] e = "likes" ->
             IF body.createdAt = Undefined
             THEN [userId |-> CoerceBigInt(body.userId),
                   postId |-> CoerceBigInt(body.postId)]
             ELSE [userId |-> CoerceBigInt(body.userId),
                   postId |-> CoerceBigInt(body.postId),
                   createdAt |-> DigitsValue(body.createdAt)]
      [] e = "comments" -> [userId |-> CoerceBigInt(body.userId),
                            postId |-> CoerceBigInt(body.postId),
                            content |-> body.content]
      [] e = "followers" -> [followerId |-> CoerceBigInt(body.followerId),
                             followeeId |-> CoerceBigInt(body.followeeId)]
      [] e = "users" -> [username |-> body.username, email |-> body.email]

\* c.req.valid('json'): the members of the schema after coercion; a z.object
\* drops the keys of the body that the schema does not name
validatedData(e, body) ==
    CASE e = "hashtags" -> [name |-> body.name]
      [] e = "posts" -> [userId |-> CoerceBigInt(body.userId), content |-> body.content]
      [] e = "likes" -> [userId |-> CoerceBigInt(body.userId),
                         postId |-> CoerceBigInt(body.postId)]
      [] e = "comments" -> [userId |-> CoerceBigInt(body.userId),
                            postId |-> CoerceBigInt(body.postId),
                            content |-> body.content]
      [] e = "followers" -> [followerId |-> CoerceBigInt(body.followerId),
                             followeeId |-> CoerceBigInt(body.followeeId)]
      [] e = "users" -> [username |-> body.username, email |-> body.email]

\* <e>SearchQuerySchema: query is a string of at least one character,
\* page and limit are absent or decimal digits
searchQuerySchema(q) ==
    /\ q.query # Undefined /\ Len(q.query) >= 1
    /\ DigitsOrAbsent(q.page) /\ DigitsOrAbsent(q.limit)

----------------------------------------------------------------------------
(* Responses *)

\* the answer of zValidator to a request that fails its schema
Invalid == [status |-> 400, body |-> [kind |-> "invalid"]]

\* the router's answer when no route matches
NoRoute == [status |-> 404, body |-> [kind |-> "noroute"]]

\* the BigInt columns of the schema
BigIntColumns == {"id", "userId", "postId", "followerId", "followeeId"}

\* BigInt.prototype.toJSON: this.toString()
BigIntToJSON(n) == IF n < 0 THEN <<"-">> \o ToDigits(0 - n) ELSE ToDigits(n)

\* a row as c.json writes it: BigInt values become decimal strings
toJSON(row) ==
    [f \in DOMAIN row |->
        IF f \in BigIntColumns THEN BigIntToJSON(row[f]) ELSE row[f]]

ErrorBody(status, details) ==
    [status |-> status, body |-> [kind |-> "error", details |-> details]]

RecordBody(status, item) ==
    [status |-> status,
     body |-> [kind |-> "record", item |-> {toJSON(row) : row \in item}]]

Deleted == [status |-> 200, body |-> [kind |-> "deleted", success |-> TRUE]]

\* the quotient rounded down
CeilDiv_floor(total, take) == total \div take

\* Math.ceil(total / take) for total >= 0, take >= 1
CeilDiv(total, take) == (total + take - 1) \div take

Envelope(items, total, skip, take, page) ==
    [status |-> 200,
     body |-> [kind |-> "envelope",
               data |-> [i \in 1..Len(items) |-> toJSON(items[i])],
               meta |-> [total |-> total, skip |-> skip, take |-> take,
                         page |-> page, totalPages |-> CeilDiv(total, take)]]]

\* handleNotFound(error, c) of lib/utils: the not-found code gives 404,
\* any other error gives 500 with the error's text
handleNotFound(err) ==
    IF err.code = "P2025" THEN ErrorBody(404, <<"not found">>)
    ELSE ErrorBody(500, <<err.code>>)

----------------------------------------------------------------------------
(* Route handlers of one route group; r is the request, d the store, s the
   sequences.  A handler gives the response, the store after it and the
   storage calls it made. *)

Done(response, d, s, cs) == [resp |-> response, db |-> d, seq |-> s, calls |-> cs]

\* a storage call that has been issued and has not settled
Pending == [ok |-> FALSE, value |-> {}, code |-> "pending", target |-> << >>]

\* a storage call that has settled with an error
Failed(x) == ~ x.ok /\ x.code # "pending"

\* a handler that answers with the rows it has when the count fails
Paginated_partial(items, total, skip, take, page, d, s) ==
    IF items.ok
    THEN Done(Envelope(items.value, IF total.ok THEN total.value ELSE 0,
                       skip, take, page),
              d, s, <<"findMany", "count">>)
    ELSE Done(ErrorBody(500, <<items.code>>), d, s, <<"findMany", "count">>)

\* the response of a list or search handler after await Promise.all([...]):
\* the envelope when both calls have given their result, the catch branch
\* with the error of the call that failed
Paginated(items, total, skip, take, page, d, s) ==
    IF items.ok /\ total.ok
    THEN Done(Envelope(items.value, total.value, skip, take, page),
              d, s, <<"findMany", "count">>)
    ELSE Done(ErrorBody(500, <<(IF Failed(items) THEN items.code ELSE total.code)>>),
              d, s, <<"findMany", "count">>)

\* what a list or search handler asks of the store and reports in meta
Plan(e, where, skip, take, page) ==
    [e |-> e, where |-> where, skip |-> skip, take |-> take, page |-> page]

\* the plan of a list request, from the processed options
ListPlan(e, options) ==
    Plan(e, options.where, options.skip, options.take,
         (options.skip \div options.take) + 1)

\* the plan of a search request, from the parsed page and the clamped limit
SearchPlan(e, whereClause, page, take) ==
    Plan(e, whereClause, (page - 1) * take, take, page)

\* both storage calls of a plan made on one state of the store
Fetched(plan, d, s, fault) ==
    Paginated(findMany(plan.e, plan.where, plan.skip, plan.take, d, fault),
              count(plan.e, plan.where, d, fault),
              plan.skip, plan.take, plan.page, d, s)

\* the list handler from the processed options on
Listed(e, options, d, s, fault) == Fetched(ListPlan(e, options), d, s, fault)

\* GET / : list with pagination and filter
listHandler(r, d, s) ==
    IF ~ likesQuerySchema(r.query) THEN Done(Invalid, d, s, << >>)
    ELSE Listed(r.entity, processLikesQueryParams(r.query), d, s, r.fault)

\* the get handler that answers a missing record like a found one
Got_no404(item, d, s) ==
    IF ~ item.ok
    THEN Done(ErrorBody(200, <<item.code>>), d, s, <<"findUnique">>)
    ELSE Done(RecordBody(200, item.value), d, s, <<"findUnique">>)

\* the get handler after findUnique: the catch branch sets no status, so
\* the error body goes out with the default status 200
Got(item, d, s) ==
    IF ~ item.ok
    THEN Done(ErrorBody(200, <<item.code>>), d, s, <<"findUnique">>)
    ELSE IF item.value = {}
    THEN Done(ErrorBody(404, <<"not found">>), d, s, <<"findUnique">>)
    ELSE Done(RecordBody(200, item.value), d, s, <<"findUnique">>)

\* GET /:id : get by id
getHandler(r, d, s) ==
    IF ~ idParamSchema(r.path[1]) THEN Done(Invalid, d, s, << >>)
    ELSE Got(findUnique(r.entity, r.path[1], d, r.fault), d, s)

\* the create handler that maps every storage error to 500
Created_no409(c) ==
    IF c.res.ok
    THEN Done(RecordBody(201, c.res.value), c.db, c.seq, <<"create">>)
    ELSE Done(ErrorBody(500, <<c.res.code>>), c.db, c.seq, <<"create">>)

\* the create handler after prisma.create
Created(c) ==
    IF c.res.ok
    THEN Done(RecordBody(201, c.res.value), c.db, c.seq, <<"create">>)
    ELSE IF c.res.code = "P2002"
    THEN Done(ErrorBody(409, c.res.target), c.db, c.seq, <<"create">>)
    ELSE Done(ErrorBody(500, <<c.res.code>>), c.db, c.seq, <<"create">>)

\* POST / : create
createHandler(r, d, s) ==
    IF ~ bodySchema(r.entity, r.body) THEN Done(Invalid, d, s, << >>)
    ELSE Created(create(r.entity, validatedData(r.entity, r.body), d, s, r.fault))

\* the update handler after prisma.update
Updated(u, s) ==
    IF u.res.ok
    THEN Done(RecordBody(200, u.res.value), u.db, s, <<"update">>)
    ELSE Done(handleNotFound(u.res), u.db, s, <<"update">>)

\* PUT /:id : update
updateHandler(r, d, s) ==
    IF ~ idParamSchema(r.path[1]) \/ ~ bodySchema(r.entity, r.body)
    THEN Done(Invalid, d, s, << >>)
    ELSE Updated(update(r.entity, r.path[1], validatedData(r.entity, r.body),
                        d, r.fault), s)

\* the delete handler after prisma.delete
Removed(x, s) ==
    IF x.res.ok
    THEN Done(Deleted, x.db, s, <<"delete">>)
    ELSE Done(handleNotFound(x.res), x.db, s, <<"delete">>)

\* DELETE /:id : delete
deleteHandler(r, d, s) ==
    IF ~ idParamSchema(r.path[1]) THEN Done(Invalid, d, s, << >>)
    ELSE Removed(delete(r.entity, r.path[1], d, r.fault), s)

\* a search that filters every entity, likes included, on a name column
searchWhere_byName(e, query) ==
    CASE e = "posts" ->
             {[field |-> "content", op |-> "startsWith", text |-> query,
               mode |-> "insensitive"]}
      [] OTHER ->
             {[field |-> "name", op |-> "startsWith", text |-> query,
               mode |-> "insensitive"]}

\* the where object of a search: a starts-with condition on the entity's
\* text column, none for likes
searchWhere(e, query) ==
    CASE e = "hashtags" ->
             {[field |-> "name", op |-> "startsWith", text |-> query,
               mode |-> "insensitive"]}
      [] e = "posts" ->
             {[field |-> "content", op |-> "startsWith", text |-> query,
               mode |-> "insensitive"]}
      [] OTHER -> {}

Min(a, b) == IF a < b THEN a ELSE b
Max(a, b) == IF a > b THEN a ELSE b

\* the search handler from the parsed page and limit on
Searched(e, whereClause, page, take, d, s, fault) ==
    Fetched(SearchPlan(e, whereClause, page, take), d, s, fault)

\* page of a search query: parseInt of the string, 1 when it is absent
SearchPageOf(q) == IF TruthyStr(q.page) THEN parseInt(q.page).v ELSE 1

\* a take that is reset to the default when the limit is out of range, as
\* the list processor does
SearchTakeOf_default10(q) == TakeOf(ParsedOrUndefined(q.limit))

\* take of a search query: Math.min(Math.max(limit, 1), 100)
SearchTakeOf(q) ==
    Min(Max(IF TruthyStr(q.limit) THEN parseInt(q.limit).v ELSE DefaultTake, 1),
        MaxTake)

\* GET /search : text search
searchHandler(r, d, s) ==
    IF ~ searchQuerySchema(r.query) THEN Done(Invalid, d, s, << >>)
    ELSE Searched(r.entity, searchWhere(r.entity, r.query.query),
                  SearchPageOf(r.query), SearchTakeOf(r.query), d, s, r.fault)

----------------------------------------------------------------------------
(* Routing: the routes of a route group in the order they are registered *)

\* the path segment "search"
Search == <<"s", "e", "a", "r", "c", "h">>

Routes ==
    << [method |-> "GET", pattern |-> "/", handler |-> "list"],
       [method |-> "GET", pattern |-> "/:id", handler |-> "get"],
       [method |-> "POST", pattern |-> "/", handler |-> "create"],
       [method |-> "PUT", pattern |-> "/:id", handler |-> "update"],
       [method |-> "DELETE", pattern |-> "/:id", handler |-> "delete"],
       [method |-> "GET", pattern |-> "/search", handler |-> "search"] >>

\* a route matches a request: same method, and the pattern matches the
\* path below the group's prefix (a parameter matches any one segment)
RouteMatches(rt, r) ==
    /\ rt.method = r.method
    /\ CASE rt.pattern = "/" -> r.path = << >>
         [] rt.pattern = "/:id" -> Len(r.path) = 1 /\ r.path[1] # << >>
         [] rt.pattern = "/search" -> r.path = <<Search>>

\* the first of a set of route indexes
First(m) == IF m = {} THEN 0 ELSE CHOOSE i \in m : \A j \in m : i <= j

\* the handler that answers a request: matching handlers run in the order
\* of registration and the first one returns the response
Dispatch(r) ==
    IF First({i \in 1..Len(Routes) : RouteMatches(Routes[i], r)}) = 0 THEN "none"
    ELSE Routes[First({i \in 1..Len(Routes) : RouteMatches(Routes[i], r)})].handler

\* the route group runs handler h on request r
Run(h, r, d, s) ==
    CASE h = "list" -> listHandler(r, d, s)
      [] h = "get" -> getHandler(r, d, s)
      [] h = "create" -> createHandler(r, d, s)
      [] h = "update" -> updateHandler(r, d, s)
      [] h = "delete" -> deleteHandler(r, d, s)
      [] h = "search" -> searchHandler(r, d, s)
      [] OTHER -> Done(NoRoute, d, s, << >>)

\* the route group answers request r
Handle(r, d, s) == Run(Dispatch(r), r, d, s)

----------------------------------------------------------------------------
(* Requests *)

NoQuery ==
    [page |-> Undefined, limit |-> Undefined, name |-> Undefined,
     description |-> Undefined, query |-> Undefined]

NoBody == [none |-> TRUE]

\* the storage is reachable during the request, or every call to it fails
Faults == {"none", "down"}

\* path segments of the requests: every id the store can hand out, and "search"
IdSegments == {ToDigits(i) : i \in 1..MaxCreates}
Segments == IdSegments \cup {Search}

\* page and limit strings of list requests
ListPages == {Undefined, <<"0">>, <<"2">>, <<"x">>}
ListLimits == {Undefined, <<"0">>, <<"1">>, <<"1", "0", "1">>}
ListNames == {Undefined, <<"a">>}

\* the query strings of search requests
SearchQueries == {Undefined, << >>, <<"a">>}

\* raw values of the id members of a body
BodyIds == {<<"1">>, <<"2">>, <<"0", "1">>, <<"x">>}
Names == {<<"a">>, <<"b">>}

\* raw values of the keys id and createdAt of a body, which no schema names
Unnamed == {Undefined, <<"0">>}

\* the JSON bodies of the create and update requests
Bodies(e) ==
    CASE e = "hashtags" -> [name : Names \cup {Undefined}, id : Unnamed]
      [] e = "posts" -> [userId : BodyIds, content : {<<"a">>}, createdAt : Unnamed]
      [] e = "likes" -> [userId : BodyIds, postId : BodyIds, createdAt : Unnamed]
      [] e = "comments" -> [userId : BodyIds, postId : BodyIds, content : {<<"a">>}]
      [] e = "followers" -> [followerId : BodyIds, followeeId : BodyIds]
      [] e = "users" -> [username : {<<"a">>, <<"c">>}, email : {<<"b">>, <<"c">>}]

\* the body sent while the store cannot be reached: a valid one, the store
\* fails whatever the data
DownBody(e) == CHOOSE b \in Bodies(e) : bodySchema(e, b)

Request(e, method, path, query, body, fault) ==
    [entity |-> e, method |-> method, path |-> path, query |-> query,
     body |-> body, fault |-> fault]

NoRequest == Request("", "", << >>, NoQuery, NoBody, "none")
NoResponse == [status |-> 0, body |-> [kind |-> "none"]]
NoOutput == [fn |-> "", out |-> Fallback]

\* no list or search request is in flight
NoPar == [active |-> FALSE]

\* what the clients know after request r was answered with out: a create
\* answered 201 tells the id and the body, an update or delete that reached
\* the record ends that knowledge
Remembered(known, r, out, id) ==
    IF r.method = "POST" /\ out.resp.status = 201
    THEN [known EXCEPT ![r.entity] = @ \cup {[id |-> id, body |-> r.body]}]
    ELSE IF r.method \in {"PUT", "DELETE"} /\ out.resp.status = 200
    THEN [known EXCEPT ![r.entity] = {x \in @ : x.id # ParseBigInt(r.path[1])}]
    ELSE known

\* the sequences of the store before any request: the users have taken two ids
FirstIds == [t \in Tables |-> IF t = "users" THEN 3 ELSE 1]

\* ids handed out so far, over all tables
IdsUsed == Now(seq) - Now(FirstIds)

----------------------------------------------------------------------------
(* The API as a state machine: one action per kind of request *)

Init ==
    /\ db = [t \in Tables |-> IF t = "users" THEN SeedUsers ELSE {}]
    /\ seq = FirstIds
    /\ req = NoRequest
    /\ resp = NoResponse
    /\ calls = << >>
    /\ pq = NoQuery
    /\ pout = NoOutput
    /\ par = NoPar
    /\ sent = [t \in Tables |-> {}]

\* the request is answered: out is what its handler gave
Reply(r, out) ==
    /\ req' = r
    /\ resp' = out.resp
    /\ db' = out.db
    /\ seq' = out.seq
    /\ calls' = out.calls
    /\ UNCHANGED <<pq, pout, par>>

\* the request is answered, what the clients know is not recorded
Answer(r, out) == Reply(r, out) /\ UNCHANGED sent

\* the request is answered and the clients take note of the answer
AnswerNoted(r, out) ==
    Reply(r, out) /\ sent' = Remembered(sent, r, out, seq[r.entity])

\* a request arrives while none is being handled
Receive(r) == req = NoRequest /\ r.entity \in Tables

\* the requests without a body for the paths of the entities es
PathRequests(es, method, segs, faults) ==
    {Request(e, method, <<seg>>, NoQuery, NoBody, f)
        : e \in es, seg \in segs, f \in faults}

\* the requests with a body for the paths of the entities es
BodyRequests(es, method, paths, faults) ==
    UNION {{Request(e, method, path, NoQuery, body, f)
               : path \in paths, body \in Bodies(e), f \in faults} : e \in es}

\* the body of a request made while the store cannot be reached is DownBody
BodyFits(r) == r.fault = "down" => r.body = DownBody(r.entity)

\* GET /likes?page=&limit=&name=
ListRequests ==
    {Request("likes", "GET", << >>,
             [NoQuery EXCEPT !.page = page, !.limit = limit, !.name = name],
             NoBody, f)
        : page \in ListPages, limit \in ListLimits, name \in ListNames,
          f \in Faults}

\* GET /<entity>/<segment>, with a query string when the segment is "search"
GetRequests ==
    PathRequests(Entities, "GET", IdSegments, Faults)
        \cup {Request(e, "GET", <<Search>>, [NoQuery EXCEPT !.query = q], NoBody, f)
                 : e \in Entities, q \in SearchQueries, f \in Faults}

\* POST /<entity>
PostRequests ==
    {r \in BodyRequests(Entities, "POST", {<< >>}, Faults) : BodyFits(r)}

\* PUT /<entity>/<segment>
PutRequests ==
    {r \in BodyRequests(Entities, "PUT", {<<seg>> : seg \in Segments}, Faults)
        : BodyFits(r)}

\* DELETE /<entity>/<segment>
DeleteRequests == PathRequests(Entities, "DELETE", Segments, Faults)

GetCollection ==
    \E r \in ListRequests :
        /\ Receive(r)
        /\ Answer(r, Handle(r, db, seq))

GetItem ==
    \E r \in GetRequests :
        /\ Receive(r)
        /\ Answer(r, Handle(r, db, seq))

PostCollection ==
    \E r \in PostRequests :
        /\ Receive(r)
        /\ IdsUsed < MaxCreates
        /\ Answer(r, Handle(r, db, seq))

PutItem ==
    \E r \in PutRequests :
        /\ Receive(r)
        /\ Answer(r, Handle(r, db, seq))

DeleteItem ==
    \E r \in DeleteRequests :
        /\ Receive(r)
        /\ Answer(r, Handle(r, db, seq))

\* the response has been sent; the server waits for the next request
Finish ==
    /\ req # NoRequest
    /\ resp # NoResponse
    /\ req' = NoRequest
    /\ resp' = NoResponse
    /\ calls' = << >>
    /\ par' = NoPar
    /\ UNCHANGED <<db, seq, pq, pout, sent>>

Next ==
    \/ GetCollection
    \/ GetItem
    \/ PostCollection
    \/ PutItem
    \/ DeleteItem
    \/ Finish

Spec == Init /\ [][Next]_vars

----------------------------------------------------------------------------
(* The query-parameter processors applied to every bounded query object *)

\* the characters of the page and limit strings given to the processors
ProcChars == {"0", "1", "9", "-", "x"}

\* the strings over ProcChars of length at most n
StringsUpTo(n) == UNION {[1..k -> ProcChars] : k \in 0..n}

ProcQueries ==
    [page : StringsUpTo(MaxPageLen) \cup {Undefined},
     limit : StringsUpTo(MaxLen) \cup {Undefined},
     name : {Undefined, << >>, <<"a">>},
     description : {Undefined, <<"b">>},
     query : {Undefined}]

InitProc ==
    /\ db = [t \in Tables |-> IF t = "users" THEN SeedUsers ELSE {}]
    /\ seq = FirstIds
    /\ req = NoRequest
    /\ resp = NoResponse
    /\ calls = << >>
    /\ pq \in ProcQueries
    /\ pout = NoOutput
    /\ par = NoPar
    /\ sent = [t \in Tables |-> {}]

ProcessLikes ==
    /\ pout.fn = ""
    /\ pout' = [fn |-> "likes", out |-> processLikesQueryParams(pq)]
    /\ UNCHANGED <<db, seq, req, resp, calls, pq, par, sent>>

ProcessFollowers ==
    /\ pout.fn = ""
    /\ pout' = [fn |-> "followers", out |-> processFollowersQueryParams(pq)]
    /\ UNCHANGED <<db, seq, req, resp, calls, pq, par, sent>>

NextProc ==
    \/ ProcessLikes
    \/ ProcessFollowers

SpecProc == InitProc /\ [][NextProc]_vars

----------------------------------------------------------------------------
(* Creates, updates, deletes and gets by id, the store being reachable, with
   a record of what each create was sent *)

\* the body names no column the schemas leave out
OnlyNamed(r) ==
    r.body = [r.body EXCEPT !.id = Undefined, !.createdAt = Undefined]

\* POST /<entity>
NotedPosts ==
    {r \in BodyRequests(Entities, "POST", {<< >>}, {"none"}) : OnlyNamed(r)}

\* PUT /<entity>/<id>
NotedPuts ==
    {r \in BodyRequests(Entities, "PUT", {<<seg>> : seg \in IdSegments}, {"none"})
        : OnlyNamed(r)}

\* DELETE /<entity>/<id>
NotedDeletes == PathRequests(Entities, "DELETE", IdSegments, {"none"})

\* GET /<entity>/<id>
NotedGets == PathRequests(Entities, "GET", IdSegments, {"none"})

CreateNoted ==
    \E r \in NotedPosts :
        /\ Receive(r)
        /\ IdsUsed < MaxCreates
        /\ AnswerNoted(r, Handle(r, db, seq))

UpdateNoted ==
    \E r \in NotedPuts :
        /\ Receive(r)
        /\ AnswerNoted(r, Handle(r, db, seq))

DeleteNoted ==
    \E r \in NotedDeletes :
        /\ Receive(r)
        /\ AnswerNoted(r, Handle(r, db, seq))

GetNoted ==
    \E r \in NotedGets :
        /\ Receive(r)
        /\ AnswerNoted(r, Handle(r, db, seq))

NextTrip ==
    \/ CreateNoted
    \/ UpdateNoted
    \/ DeleteNoted
    \/ GetNoted
    \/ Finish

SpecTrip == Init /\ [][NextTrip]_vars

----------------------------------------------------------------------------
(* Creates, updates and deletes in all six route groups.  A handler makes
   one storage call, which the store executes atomically, so requests handled
   concurrently act on the store like the same requests in some order. *)

\* bodies whose ids are decimal and which carry no key outside the schema
PlainValues == {Undefined, <<"1">>, <<"2">>, <<"a">>, <<"b">>, <<"c">>}
PlainBodies(e) == {b \in Bodies(e) : \A f \in DOMAIN b : b[f] \in PlainValues}
Plain(r) == r.body \in PlainBodies(r.entity)

\* POST /<entity>
StorePosts == {r \in BodyRequests(Tables, "POST", {<< >>}, {"none"}) : Plain(r)}

\* PUT /<entity>/<id>
StorePuts ==
    {r \in BodyRequests(Tables, "PUT", {<<seg>> : seg \in IdSegments}, {"none"})
        : Plain(r)}

\* DELETE /<entity>/<id>
StoreDeletes == PathRequests(Tables, "DELETE", IdSegments, {"none"})

PostStore ==
    \E r \in StorePosts :
        /\ Receive(r)
        /\ IdsUsed < MaxStoreCreates
        /\ Answer(r, Handle(r, db, seq))

PutStore ==
    \E r \in StorePuts :
        /\ Receive(r)
        /\ Answer(r, Handle(r, db, seq))

DeleteStore ==
    \E r \in StoreDeletes :
        /\ Receive(r)
        /\ Answer(r, Handle(r, db, seq))

NextStore ==
    \/ PostStore
    \/ PutStore
    \/ DeleteStore
    \/ Finish

SpecStore == Init /\ [][NextStore]_vars

----------------------------------------------------------------------------
(* List and search requests read stores of every size up to MaxRows *)

\* the name of the i-th hashtag: "a" or "B", then i - 1 times "a"
NameOf(i) == [j \in 1..i |-> IF j = 1 /\ i % 2 = 0 THEN "B" ELSE "a"]

\* the data of the i-th post, like and hashtag that are created
PostOf(i) == [userId |-> 1 + (i % 2), content |-> <<"a">>]
LikeOf(i) == [userId |-> 1 + ((i - 1) % 2), postId |-> 1 + ((i - 1) \div 2)]
HashtagOf(i) == [name |-> NameOf(i)]

\* the store after n times a post, a like and a hashtag have been created
StoreOf(n) ==
    [t \in Tables |->
        CASE t = "users" -> SeedUsers
          [] t = "posts" ->
                 {MkRow("posts", i, PostOf(i), Now(FirstIds) + 3 * (i - 1))
                      : i \in 1..n}
          [] t = "likes" ->
                 {MkRow("likes", i, LikeOf(i), Now(FirstIds) + 3 * (i - 1) + 1)
                      : i \in 1..n}
          [] t = "hashtags" ->
                 {MkRow("hashtags", i, HashtagOf(i), 0) : i \in 1..n}
          [] OTHER -> {}]

\* the sequences of that store
SeqOf(n) ==
    [t \in Tables |->
        IF t \in {"posts", "likes", "hashtags"} THEN n + 1 ELSE FirstIds[t]]

\* query, page and limit strings of the search requests
SearchTexts == {Undefined, << >>, <<"a">>, <<"b">>}
SearchPages == {Undefined, <<"0">>, <<"1">>, <<"2">>}
SearchLimits == {Undefined, <<"0">>, <<"2">>, <<"1", "0", "1">>}

InitRead ==
    /\ db = StoreOf(0)
    /\ seq = SeqOf(0)
    /\ req = NoRequest
    /\ resp = NoResponse
    /\ calls = << >>
    /\ pq = NoQuery
    /\ pout = NoOutput
    /\ par = NoPar
    /\ sent = [t \in Tables |-> {}]

\* GET /<entity>/search?query=&page=&limit=
SearchRequests ==
    {Request(e, "GET", <<Search>>,
             [NoQuery EXCEPT !.query = q, !.page = page, !.limit = limit],
             NoBody, f)
        : e \in Entities, q \in SearchTexts, page \in SearchPages,
          limit \in SearchLimits, f \in Faults}

\* the search handler of a route group is run on GET /<entity>/search
SearchCall ==
    \E r \in SearchRequests :
        /\ Receive(r)
        /\ Answer(r, searchHandler(r, db, seq))

\* three POST requests are handled one after the other: a post, a like and
\* a hashtag are created
Grow ==
    /\ req = NoRequest
    /\ seq["likes"] <= MaxRows
    /\ \E i \in {seq["likes"]} :
           \E p \in {create("posts", PostOf(i), db, seq, "none")} :
               \E l \in {create("likes", LikeOf(i), p.db, p.seq, "none")} :
                   \E h \in {create("hashtags", HashtagOf(i), l.db, l.seq, "none")} :
                       /\ db' = h.db
                       /\ seq' = h.seq
    /\ UNCHANGED <<req, resp, calls, pq, pout, par, sent>>

\* page, limit and name strings of the lists that are read page by page
PagedPages == {Undefined, <<"1">>, <<"2">>, <<"9">>}
PagedLimits == {Undefined, <<"2">>, <<"3">>}
PagedNames == {Undefined, <<"a">>, <<"B">>}

\* GET /hashtags?page=&limit=&name= and GET /likes?page=&limit=&name=
PagedRequests ==
    {Request(e, "GET", << >>,
             [NoQuery EXCEPT !.page = page, !.limit = limit, !.name = name],
             NoBody, f)
        : e \in {"hashtags", "likes"}, page \in PagedPages,
          limit \in PagedLimits, name \in PagedNames, f \in Faults}

\* one page of a list is requested
GetPage ==
    \E r \in PagedRequests :
        /\ Receive(r)
        /\ Answer(r, Handle(r, db, seq))

NextRead ==
    \/ Grow
    \/ GetCollection
    \/ GetPage
    \/ SearchCall
    \/ Finish

SpecRead == InitRead /\ [][NextRead]_vars

\* how many pages after the last one are asked for
PagesBeyond == 2

\* the list request r asked for page p
OnPage(r, p) == [r EXCEPT !.query.page = ToDigits(p)]

\* the bodies of the answers to the list request r for pages 1..n, all on
\* the store d
PageBodies(r, n, d, s) ==
    [p \in 1..n |-> Handle(OnPage(r, p), d, s).resp.body]

\* the limit of the query is given and lies in [1,100]
LimitInRange(q) ==
    IsDigitString(q.limit) /\ DigitsValue(q.limit) \in 1..100

\* the ids of a data array, in the order of the array
IdsIn(data) == [i \in 1..Len(data) |-> ParseBigInt(data[i].id)]

\* the members of a sequence
Members(xs) == {xs[i] : i \in 1..Len(xs)}

\* pages 1..n are envelopes that split the rows into disjoint windows of
\* descending id, and the pages after n are empty envelopes
Partitioned(pages, n, rows) ==
    /\ \A p \in DOMAIN pages :
           pages[p].kind = "envelope" /\ pages[p].meta.totalPages = n
    /\ \A p \in 1..n :
           \A i \in 1..(Len(pages[p].data) - 1) :
               IdsIn(pages[p].data)[i] > IdsIn(pages[p].data)[i + 1]
    /\ \A p \in 1..(n - 1) :
           \A a \in Members(IdsIn(pages[p].data)) :
               \A b \in Members(IdsIn(pages[p + 1].data)) : b < a
    /\ \A p \in 1..n : \A q \in 1..n :
           p # q => Members(pages[p].data) \cap Members(pages[q].data) = {}
    /\ UNION {Members(pages[p].data) : p \in 1..n} = {toJSON(r) : r \in rows}
    /\ \A p \in DOMAIN pages : p > n => pages[p].data = << >>

\* the answer to page 1 of the list request r on the store d
FirstPage(r, d, s) == Handle(OnPage(r, 1), d, s).resp.body

\* C25: for a list request with a limit in [1,100] whose page 1 is answered
\* with an envelope, the requests with the same filter and limit for pages
\* 1..totalPages, all on the same store, return pairwise disjoint data
\* arrays, each in strictly descending id order, every id of page p+1 below
\* every id of page p, that together hold exactly the records matching the
\* filter, and the pages after totalPages return an empty data array.
C25_PagesPartition ==
    (/\ req.method = "GET" /\ req.path = << >> /\ req.fault = "none"
     /\ LimitInRange(req.query)
     /\ FirstPage(req, db, seq).kind = "envelope") =>
        Partitioned(PageBodies(req, FirstPage(req, db, seq).meta.totalPages
                                        + PagesBeyond, db, seq),
                    FirstPage(req, db, seq).meta.totalPages,
                    {r \in db[req.entity] :
                        RowMatches(r, WhereOf(req.query.name,
                                              req.query.description))})

\* page 2 of the hashtags whose name contains "b", two to a page, of a
\* store of 25 hashtags: six pages, and this one holds ids 20 and 18
C25_Witness ==
    /\ req.entity = "hashtags" /\ req.method = "GET" /\ req.path = << >>
    /\ req.query.name = <<"B">> /\ req.query.limit = <<"2">>
    /\ req.query.page = <<"2">>
    /\ resp.body.kind = "envelope"
    /\ resp.body.meta.totalPages = 6
    /\ IdsIn(resp.body.data) = <<20, 18>>

----------------------------------------------------------------------------
(* A list or search request followed call by call.  The handler builds both
   storage calls and awaits Promise.all of them: the calls settle one by one,
   in either order, each on the store as it is at that moment, while other
   requests write to the store.  Promise.all is fulfilled when both calls
   are, and rejected as soon as one of them is. *)

\* the plan of a list or search request
PlanOf(r) ==
    IF r.path = << >>
    THEN ListPlan(r.entity, processLikesQueryParams(r.query))
    ELSE SearchPlan(r.entity, searchWhere(r.entity, r.query.query),
                    SearchPageOf(r.query), SearchTakeOf(r.query))

\* the request passes the query schema of its route
Validated(r) ==
    IF r.path = << >> THEN likesQuerySchema(r.query) ELSE searchQuerySchema(r.query)

\* the list and search requests that are followed call by call
ConcPages == {Undefined, <<"2">>}
ConcLimits == {Undefined, <<"1">>}
ConcTexts == {Undefined, <<"a">>}

\* GET /likes?page=&limit=
ConcLists ==
    {Request("likes", "GET", << >>,
             [NoQuery EXCEPT !.page = page, !.limit = limit], NoBody, "none")
        : page \in ConcPages, limit \in ConcLimits}

\* GET /<entity>/search?query=&page=&limit=
ConcSearches ==
    {Request(e, "GET", <<Search>>,
             [NoQuery EXCEPT !.query = q, !.page = page, !.limit = limit],
             NoBody, "none")
        : e \in Entities, q \in ConcTexts, page \in ConcPages,
          limit \in ConcLimits}

\* the writes of other requests
ConcPosts == {r \in BodyRequests(Entities, "POST", {<< >>}, {"none"}) : Plain(r)}
ConcDeletes == PathRequests(Entities, "DELETE", IdSegments, {"none"})

InitConc ==
    /\ db = StoreOf(MaxConcRows)
    /\ seq = SeqOf(MaxConcRows)
    /\ req = NoRequest
    /\ resp = NoResponse
    /\ calls = << >>
    /\ pq = NoQuery
    /\ pout = NoOutput
    /\ par = NoPar
    /\ sent = [t \in Tables |-> {}]

\* the handler runs up to await Promise.all: a request that fails its schema
\* is answered 400, for any other both calls are issued
Started(r) ==
    /\ Receive(r)
    /\ req' = r
    /\ IF Validated(r)
       THEN /\ resp' = NoResponse
            /\ calls' = <<"findMany", "count">>
            /\ par' = [active |-> TRUE, plan |-> PlanOf(r), items |-> Pending,
                       total |-> Pending, writes |-> 0]
       ELSE /\ resp' = Invalid
            /\ calls' = << >>
            /\ par' = NoPar
    /\ UNCHANGED <<db, seq, pq, pout, sent>>

\* the list handler is entered
ListStarts == \E r \in ConcLists : Started(r)

\* the search handler is entered
SearchStarts == \E r \in ConcSearches : Started(r)

\* a call can settle unless a rejection is about to be handled
CanSettle ==
    /\ par.active
    /\ resp # NoResponse \/ ~ (Failed(par.items) \/ Failed(par.total))

\* findMany settles: with its rows, or with an error
ItemsSettle ==
    /\ CanSettle
    /\ par.items = Pending
    /\ \E f \in Faults :
           par' = [par EXCEPT !.items =
                       findMany(par.plan.e, par.plan.where, par.plan.skip,
                                par.plan.take, db, f)]
    /\ UNCHANGED <<db, seq, req, resp, calls, pq, pout, sent>>

\* count settles: with the total, or with an error
TotalSettles ==
    /\ CanSettle
    /\ par.total = Pending
    /\ \E f \in Faults :
           par' = [par EXCEPT !.total = count(par.plan.e, par.plan.where, db, f)]
    /\ UNCHANGED <<db, seq, req, resp, calls, pq, pout, sent>>

\* Promise.all settles and the handler answers: the envelope once both calls
\* are fulfilled, the catch branch once one is rejected
Responds ==
    /\ par.active
    /\ resp = NoResponse
    /\ \/ par.items.ok /\ par.total.ok
       \/ Failed(par.items)
       \/ Failed(par.total)
    /\ resp' = Paginated(par.items, par.total, par.plan.skip, par.plan.take,
                         par.plan.page, db, seq).resp
    /\ UNCHANGED <<db, seq, req, calls, pq, pout, par, sent>>

\* another request creates a record while this one is in flight
OtherCreates ==
    /\ par.active /\ resp = NoResponse /\ par.writes < MaxWrites
    /\ Now(seq) - Now(SeqOf(MaxConcRows)) < MaxWrites
    /\ \E r \in ConcPosts :
           \E out \in {createHandler(r, db, seq)} :
               /\ out.db # db
               /\ db' = out.db
               /\ seq' = out.seq
    /\ par' = [par EXCEPT !.writes = @ + 1]
    /\ UNCHANGED <<req, resp, calls, pq, pout, sent>>

\* another request deletes a record while this one is in flight
OtherDeletes ==
    /\ par.active /\ resp = NoResponse /\ par.writes < MaxWrites
    /\ \E r \in ConcDeletes :
           \E out \in {deleteHandler(r, db, seq)} :
               /\ out.db # db
               /\ db' = out.db
    /\ par' = [par EXCEPT !.writes = @ + 1]
    /\ UNCHANGED <<seq, req, resp, calls, pq, pout, sent>>

NextConc ==
    \/ ListStarts
    \/ SearchStarts
    \/ ItemsSettle
    \/ TotalSettles
    \/ Responds
    \/ OtherCreates
    \/ OtherDeletes
    \/ Finish

SpecConc == InitConc /\ [][NextConc]_vars

----------------------------------------------------------------------------
(* Properties of the query-parameter processors (checked under SpecProc) *)

\* the page and limit of the processed query as the processor parses them
ParsedPage == IF TruthyStr(pq.page) THEN parseInt(pq.page) ELSE UndefNum
ParsedLimit == IF TruthyStr(pq.limit) THEN parseInt(pq.limit) ELSE UndefNum

\* the processed query passes the list-query schema of its entity
QueryValidated ==
    IF pout.fn = "followers" THEN followersQuerySchema(pq) ELSE likesQuerySchema(pq)

\* the skip the claim states for the parsed page and the returned take
StatedSkip ==
    IF ParsedPage.k = "num" /\ ParsedPage.v > 0
    THEN (ParsedPage.v - 1) * pout.out.take
    ELSE 0

\* the parsed values are inside the bounds of the re-validation
InsideBounds ==
    /\ ParsedPage.k = "undefined" \/ (ParsedPage.k = "num" /\ ParsedPage.v >= 1)
    /\ ParsedLimit.k = "undefined"
         \/ (ParsedLimit.k = "num" /\ ParsedLimit.v >= 1 /\ ParsedLimit.v <= MaxTake)

\* C1 (as stated): for every query that passes list-query validation the
\* processor returns take in [1,100] and skip = (page-1)*take when the
\* parsed page is > 0, otherwise skip = 0.
C1_AsStated ==
    (pout.fn # "" /\ QueryValidated) =>
        /\ pout.out.take \in 1..MaxTake
        /\ pout.out.skip = StatedSkip

\* C1 (amended): for every query that passes list-query validation, take is
\* in [1,100]; when the parsed page and limit are inside the re-validation
\* bounds, skip = (page-1)*take for a parsed page > 0 and skip = 0 for an
\* absent page; when they are not, skip = 0 and take = 10 whatever the page.
C1_SkipTake ==
    (pout.fn # "" /\ QueryValidated) =>
        /\ pout.out.take \in 1..MaxTake
        /\ InsideBounds => pout.out.skip = StatedSkip
        /\ ~ InsideBounds => (pout.out.skip = 0 /\ pout.out.take = DefaultTake)

\* a validated query with page >= 2 and a limit other than the default was
\* processed into a positive skip
C1_Witness ==
    /\ pout.fn = "likes" /\ QueryValidated /\ InsideBounds
    /\ ParsedPage.v >= 2 /\ ParsedLimit.k = "num"
    /\ pout.out.take = ParsedLimit.v /\ pout.out.take # DefaultTake
    /\ pout.out.skip = (ParsedPage.v - 1) * ParsedLimit.v

\* C8: when the re-validation of the derived values fails (parsed page = 0,
\* parsed limit = 0 or parsed limit > 100, and likewise a negative or
\* non-numeric page or limit) the processor returns exactly
\* {where: {}, skip: 0, take: 10}: the text filters of the request are dropped.
C8_FallbackExact ==
    (pout.fn # "" /\ ~ InsideBounds)
    => pout.out = [where |-> {}, skip |-> 0, take |-> 10]

\* a query with both text filters, a page >= 2 and limit 0 came back as the
\* fallback
C8_Witness ==
    /\ pout.fn = "likes"
    /\ TruthyStr(pq.name) /\ TruthyStr(pq.description)
    /\ ParsedPage.k = "num" /\ ParsedPage.v >= 2
    /\ ParsedLimit.k = "num" /\ ParsedLimit.v = 0 /\ pq.limit # << >>
    /\ pout.out.where = {} /\ pout.out.skip = 0 /\ pout.out.take = 10

\* C9: for every input, non-numeric, negative, zero and out-of-range page
\* and limit strings included, the processor returns with skip an integer
\* >= 0 and take an integer in [1,100].
C9_WellFormed ==
    pout.fn # "" => (pout.out.skip \in Nat /\ pout.out.take \in 1..100)

\* a query with a non-numeric page and a negative limit was processed
C9_Witness ==
    /\ pout.fn = "followers"
    /\ TruthyStr(pq.page) /\ ParsedPage.k = "nan"
    /\ ParsedLimit.k = "num" /\ ParsedLimit.v < 0
    /\ pout.out.skip = 0 /\ pout.out.take = 10

\* the conditions of the returned where object on one field
OnField(field) == {c \in pout.out.where : c.field = field}

----------------------------------------------------------------------------
(* Properties of the route groups (checked under Spec) *)

\* the request handled last is GET /<entity>/search
IsSearchRequest == req.method = "GET" /\ req.path = <<Search>>

\* the request handled last addresses a record by a decimal id
AddressesId ==
    /\ req.method \in {"GET", "PUT", "DELETE"}
    /\ Len(req.path) = 1 /\ IsBigIntString(req.path[1])

\* rows of table e that hold the same value as data in each of the fields
SameOn(e, fields, data, d) ==
    {r \in d[e] : \A i \in 1..Len(fields) : r[fields[i]] = data[fields[i]]}

\* C2: GET /<entity>/search with a non-empty query is handled by the
\* entity's search handler and answered with status 200 and the paginated
\* envelope, the storage calls succeeding.
C2_SearchAnswered ==
    (IsSearchRequest /\ TruthyStr(req.query.query) /\ req.fault = "none") =>
        /\ Dispatch(req) = "search"
        /\ resp.status = 200
        /\ resp.body.kind = "envelope"

\* C3: a search request whose query is missing or empty is rejected with
\* status 400 and no storage call is made while handling it.
C3_EmptySearchRejected ==
    (IsSearchRequest /\ ~ TruthyStr(req.query.query)) =>
        (resp.status = 400 /\ calls = << >>)

\* C4: in every handler a storage failure that is neither "record not
\* found" nor a unique-constraint violation produces status 500.
C4_StorageFailure500 ==
    (req # NoRequest /\ req.fault = "down" /\ calls # << >>) => resp.status = 500

\* C5: get-by-id, update and delete addressed to an id for which no record
\* exists each respond with status 404 (the body being valid for an update
\* and the store reachable).
C5_Missing404 ==
    [][(/\ req = NoRequest
        /\ req'.method \in {"GET", "PUT", "DELETE"}
        /\ Len(req'.path) = 1 /\ IsBigIntString(req'.path[1])
        /\ req'.fault = "none"
        /\ req'.method = "PUT" => bodySchema(req'.entity, req'.body)
        /\ \A r \in db[req'.entity] : r.id # ParseBigInt(req'.path[1]))
       => resp'.status = 404]_vars

\* an update with a valid body was addressed to a missing id of a table
\* that holds other rows, and answered 404
C5_Witness ==
    /\ AddressesId /\ req.method = "PUT" /\ req.fault = "none"
    /\ bodySchema(req.entity, req.body)
    /\ db[req.entity] # {}
    /\ \A r \in db[req.entity] : r.id # ParseBigInt(req.path[1])
    /\ resp.status = 404

C7_UpdateConflict409 ==
    (/\ AddressesId /\ req.method = "PUT" /\ req.fault = "none"
     /\ bodySchema(req.entity, req.body)
     /\ Len(UniqueKeys(req.entity)) = 1
     /\ \E r \in db[req.entity] : r.id = ParseBigInt(req.path[1])
     /\ \E r \in SameOn(req.entity, UniqueKeys(req.entity)[1],
                        validatedData(req.entity, req.body), db) :
            r.id # ParseBigInt(req.path[1]))
    => resp.status = 409

\* the list request handled last makes the processor fall back
ListFallsBack ==
    LET page == IF TruthyStr(req.query.page) THEN parseInt(req.query.page)
                ELSE UndefNum
        limit == IF TruthyStr(req.query.limit) THEN parseInt(req.query.limit)
                 ELSE UndefNum
    IN  /\ likesQuerySchema(req.query)
        /\ \/ (page.k = "num" /\ page.v = 0)
           \/ (limit.k = "num" /\ (limit.v = 0 \/ limit.v > MaxTake))

\* C10: for any page and limit strings on a list request the response
\* status is never 500, the storage being healthy; and whenever the
\* processor falls back, the list endpoint returns an envelope whose meta
\* has take = 10, skip = 0 and page = 1.
C10_ListNever500 ==
    (req.method = "GET" /\ req.path = << >> /\ req.fault = "none") =>
        /\ resp.status # 500
        /\ ListFallsBack =>
               /\ resp.body.kind = "envelope"
               /\ resp.body.meta.take = 10
               /\ resp.body.meta.skip = 0
               /\ resp.body.meta.page = 1

\* C22: the where filter that the list handler passes to storage names only
\* columns of the entity's table: a validated list request for likes that
\* carries name or description produces no filter on a column likes lacks.
C22_FilterColumns ==
    (req.method = "GET" /\ req.path = << >> /\ likesQuerySchema(req.query)
       /\ calls # << >>) =>
        \A c \in PlanOf(req).where : c.field \in Columns(req.entity)

\* the ids of the rows of table t in store d
IdsOf(d, t) == {r.id : r \in d[t]}

\* C17: no request changes the createdAt of a record that exists, and an
\* update request, whatever its body, leaves the ids of the records as they
\* are: each record keeps the createdAt it was created with.
C17_CreatedAtKept ==
    [][/\ \A t \in Tables : \A r \in db[t] : \A r2 \in db'[t] :
              (r2.id = r.id /\ "createdAt" \in DOMAIN r)
                  => r2.createdAt = r.createdAt
       /\ req'.method = "PUT" => \A t \in Tables : IdsOf(db', t) = IdsOf(db, t)
      ]_vars

\* an update whose body carries a createdAt changed a like's post, and the
\* like has a createdAt other than the one in the body
C17_Witness ==
    /\ req.method = "PUT" /\ req.entity = "likes" /\ resp.status = 200
    /\ req.body.createdAt = <<"0">>
    /\ resp.body.kind = "record"
    /\ \E l \in db["likes"] :
           /\ l.id = ParseBigInt(req.path[1])
           /\ l.postId = 2 /\ l.createdAt # 0
           /\ \E p \in db["posts"] : p.id = 2 /\ p.createdAt > l.createdAt

\* the request now handled addresses the record of a decimal id and can be
\* carried out: the store is reachable and the body of an update is valid
AddressesIdNow ==
    /\ req = NoRequest /\ req' # NoRequest
    /\ req'.method \in {"GET", "PUT", "DELETE"}
    /\ Len(req'.path) = 1 /\ req'.path[1] \in IdSegments
    /\ req'.fault = "none"
    /\ req'.method = "PUT" => bodySchema(req'.entity, req'.body)

\* the records of the store d that the request r addresses
Addressed(d, r) == {x \in d[r.entity] : x.id = ParseBigInt(r.path[1])}

\* C20: a delete of an existing, unreferenced record responds 200 with
\* {success: true, message} and removes exactly that record; a get-by-id, an
\* update or a delete of an id that has been handed out and has no record
\* responds 404 and changes nothing; and an id that has been handed out and
\* has no record never has one again, whatever is created.
C20_DeletedForGood ==
    [][/\ (/\ AddressesIdNow /\ req'.method = "DELETE"
           /\ Addressed(db, req') # {}
           /\ ~ Referenced(req'.entity, db, ParseBigInt(req'.path[1])))
              => /\ resp'.status = 200
                 /\ resp'.body = [kind |-> "deleted", success |-> TRUE]
                 /\ db' = [db EXCEPT ![req'.entity] = @ \ Addressed(db, req')]
       /\ (/\ AddressesIdNow
           /\ ParseBigInt(req'.path[1]) < seq[req'.entity]
           /\ Addressed(db, req') = {})
              => resp'.status = 404 /\ db' = db /\ seq' = seq
       /\ \A t \in Tables :
              /\ seq'[t] >= seq[t]
              /\ \A i \in 1..(seq[t] - 1) :
                     i \notin IdsOf(db, t) => i \notin IdsOf(db', t)
      ]_vars

\* the request now handled is a create, an update or a delete
WriteNow ==
    /\ req = NoRequest /\ req' # NoRequest
    /\ req'.method \in {"POST", "PUT", "DELETE"}

\* C24: a create, update or delete request that is answered with an error
\* status (400, 404, 409 or 500) leaves the records of every table as they
\* were, and an update of an id that has no record creates none: it is
\* answered with an error status and the store is unchanged.
C24_ErrorsChangeNothing ==
    [][/\ (WriteNow /\ resp'.status \in {400, 404, 409, 500}) => db' = db
       /\ (/\ WriteNow /\ req'.method = "PUT"
           /\ Len(req'.path) = 1 /\ req'.path[1] \in IdSegments
           /\ Addressed(db, req') = {})
              => resp'.status \in {400, 404, 500} /\ db' = db
      ]_vars

\* an update of hashtag 2, which does not exist, with a valid body was
\* answered 404 and the store holds hashtag 1 alone
C24_Witness ==
    /\ req.entity = "hashtags" /\ req.method = "PUT" /\ req.path = <<ToDigits(2)>>
    /\ req.fault = "none" /\ bodySchema("hashtags", req.body)
    /\ resp.status = 404
    /\ IdsOf(db, "hashtags") = {1}

\* hashtag 1 was deleted and hashtag 2 created after it, and a delete of
\* hashtag 1 was answered 404
C20_Witness ==
    /\ req.entity = "hashtags" /\ req.method = "DELETE" /\ req.path = <<ToDigits(1)>>
    /\ req.fault = "none"
    /\ resp.status = 404
    /\ IdsOf(db, "hashtags") = {2}
    /\ seq["hashtags"] = 3

----------------------------------------------------------------------------
(* Properties of the list and search handlers (checked under SpecRead) *)

\* page and limit of the search request handled last, as the claim states
\* them: the decimal value of the string, 1 and 10 when it is absent
SearchPage ==
    IF req.query.page = Undefined THEN 1 ELSE DigitsValue(req.query.page)
SearchLimit ==
    IF req.query.limit = Undefined THEN 10 ELSE DigitsValue(req.query.limit)
SearchTake ==
    IF SearchLimit < 1 THEN 1 ELSE IF SearchLimit > 100 THEN 100 ELSE SearchLimit

LikesAbove(row) == {l \in db["likes"] : l.id > row.id}

IsListRequest == req.method = "GET" /\ req.path = << >>

\* what the processor returns for the query of the request handled last
ListOptions == processLikesQueryParams(req.query)

\* C12: every list envelope has meta.skip and meta.take equal to the
\* processor's skip and take, meta.page = floor(skip/take)+1 and
\* meta.totalPages = ceil(total/take): totalPages = 0 exactly when total = 0,
\* and otherwise (totalPages-1)*take < total <= totalPages*take.
C12_ListMeta ==
    IsListRequest =>
        /\ (likesQuerySchema(req.query) /\ req.fault = "none"
              /\ ListOptions.where = {}) => resp.body.kind = "envelope"
        /\ resp.body.kind = "envelope" =>
               /\ resp.body.meta.skip = ListOptions.skip
               /\ resp.body.meta.take = ListOptions.take
               /\ (resp.body.meta.page - 1) * resp.body.meta.take
                      <= resp.body.meta.skip
               /\ resp.body.meta.skip < resp.body.meta.page * resp.body.meta.take
               /\ resp.body.meta.total =
                      Cardinality({r \in db[req.entity] :
                                      RowMatches(r, ListOptions.where)})
               /\ resp.body.meta.totalPages = 0 <=> resp.body.meta.total = 0
               /\ resp.body.meta.total > 0 =>
                      /\ (resp.body.meta.totalPages - 1) * resp.body.meta.take
                             < resp.body.meta.total
                      /\ resp.body.meta.total
                             <= resp.body.meta.totalPages * resp.body.meta.take

\* the second page of 25 likes, ten to a page, was listed: three pages
C12_Witness ==
    /\ IsListRequest /\ resp.body.kind = "envelope"
    /\ resp.body.meta.total = 25 /\ resp.body.meta.take = 10
    /\ resp.body.meta.skip = 10 /\ resp.body.meta.page = 2
    /\ resp.body.meta.totalPages = 3
    /\ Len(resp.body.data) = 10

----------------------------------------------------------------------------
(* Properties of create followed by get (checked under SpecTrip) *)

\* the request handled last is a get by a decimal id
IsGetById ==
    /\ req.method = "GET" /\ Len(req.path) = 1 /\ IsBigIntString(req.path[1])

\* the fields of a record that the client supplies
ClientFields(e) ==
    CASE e = "hashtags" -> {"name"}
      [] e = "posts" -> {"userId", "content"}
      [] e = "likes" -> {"userId", "postId"}

\* the creates answered 201 with the id that the get handled last asks for,
\* the record not updated or deleted since
KnownOf == {x \in sent[req.entity] : x.id = ParseBigInt(req.path[1])}

\* a decimal string without sign or leading zero
Canonical(t) == IsDigitString(t) /\ (Len(t) = 1 \/ Head(t) # "0")

\* C14 (as stated): after a create answered 201 with id i, a get by id of i,
\* with no update or delete of i in between, answers 200 with a record whose
\* client-supplied fields equal the values sent in the create request.
C14_AsStated ==
    IsGetById =>
        \A x \in KnownOf :
            /\ resp.status = 200 /\ resp.body.kind = "record"
            /\ resp.body.item # {}
            /\ \A item \in resp.body.item : \A f \in ClientFields(req.entity) :
                   item[f] = x.body[f]

\* C14 (amended): such a get answers 200 with a record whose text fields
\* equal the values sent and whose integer fields are the decimal strings,
\* without sign or leading zero, of the integers sent.
C14_RoundTrip ==
    IsGetById =>
        \A x \in KnownOf :
            /\ resp.status = 200 /\ resp.body.kind = "record"
            /\ resp.body.item # {}
            /\ \A item \in resp.body.item : \A f \in ClientFields(req.entity) :
                   IF f \in BigIntColumns
                   THEN /\ Canonical(item[f])
                        /\ DigitsValue(item[f]) = DigitsValue(x.body[f])
                   ELSE item[f] = x.body[f]

\* a like created with userId "01" and postId "2" was fetched by its id and
\* came back with userId "1" and postId "2"
C14_Witness ==
    /\ IsGetById /\ req.entity = "likes"
    /\ \E x \in KnownOf : x.body.userId = <<"0", "1">> /\ x.body.postId = <<"2">>
    /\ resp.body.kind = "record"
    /\ \E item \in resp.body.item :
           item.userId = <<"1">> /\ item.postId = <<"2">>

----------------------------------------------------------------------------
(* Properties of the store (checked under SpecStore) *)

\* no two rows of table t hold the same values in all of fields
NoTwoShare(t, fields) ==
    \A r1, r2 \in db[t] :
        (\A f \in fields : r1[f] = r2[f]) => r1 = r2

C16_References ==
    /\ \A p \in db["posts"] : \E u \in db["users"] : u.id = p.userId
    /\ \A t \in {"likes", "comments"} : \A r \in db[t] :
           /\ \E u \in db["users"] : u.id = r.userId
           /\ \E p \in db["posts"] : p.id = r.postId
    /\ \A f \in db["followers"] :
           /\ \E u \in db["users"] : u.id = f.followerId
           /\ \E u \in db["users"] : u.id = f.followeeId

\* a delete was addressed to a post that a like or comment refers to, and
\* the post is still there
C16_Witness ==
    /\ req.method = "DELETE" /\ req.entity = "posts" /\ calls = <<"delete">>
    /\ \E p \in db["posts"] :
           /\ p.id = ParseBigInt(req.path[1])
           /\ \E t \in {"likes", "comments"} : \E r \in db[t] : r.postId = p.id

----------------------------------------------------------------------------
(* Properties of the two storage calls of a list or search request
   (checked under SpecConc) *)

\* a list or search request has passed validation and is in flight
InFlight == par.active

\* both storage calls have been issued
BothIssued == calls = <<"findMany", "count">>

\* both storage calls have settled, with a result or with an error
BothCompleted == par.items # Pending /\ par.total # Pending

\* C18 as stated: in a list or search request both storage calls are issued
\* before either settles, the response is produced only after both have
\* completed, and if either fails the response is a 500 error body.
C18_AsStated ==
    InFlight =>
        /\ BothIssued
        /\ resp # NoResponse => BothCompleted
        /\ (resp # NoResponse /\ (Failed(par.items) \/ Failed(par.total))) =>
               resp.status = 500 /\ resp.body.kind = "error"

\* C18 (amended): in a list or search request both storage calls are issued
\* before either settles; the envelope is produced only after both have
\* completed successfully and is built from their two results; if either
\* fails the response is a 500 error body, produced as soon as the first
\* failure is known (the other call may still be pending), and never a
\* partial envelope.
C18_BothOrError ==
    InFlight =>
        /\ BothIssued
        /\ resp # NoResponse =>
               \/ /\ par.items.ok /\ par.total.ok
                  /\ resp = Envelope(par.items.value, par.total.value,
                                     par.plan.skip, par.plan.take, par.plan.page)
               \/ /\ Failed(par.items) \/ Failed(par.total)
                  /\ resp.status = 500 /\ resp.body.kind = "error"

\* the count failed while the rows were still being fetched, and the request
\* was answered 500
C18_Witness ==
    /\ InFlight /\ par.items = Pending /\ Failed(par.total)
    /\ resp.status = 500 /\ resp.body.kind = "error"

\* C23: in every list or search response, also when other requests create or
\* delete records while it is being handled, the number of rows in data is
\* min(take, max(0, total - skip)): data and meta.total describe the same
\* snapshot of the store.
C23_SameSnapshot ==
    (InFlight /\ resp.body.kind = "envelope") =>
        Len(resp.body.data) =
            Min(resp.body.meta.take,
                Max(0, resp.body.meta.total - resp.body.meta.skip))

====
